---- MODULE Spec2Model ----
(***************************************************************************)
(* Content-approval application: the tables profiles and content_items     *)
(* with their row-level security policies (supabase/migrations), and the   *)
(* Dashboard page that reads and writes them (src/pages/Dashboard.tsx).    *)
(*                                                                         *)
(* A nullable column value is a set: {} is SQL NULL, {v} is the value v.   *)
(* Timestamps are clock ticks.  Text is a sequence of characters.          *)
(*                                                                         *)
(* SpecDb: the database under the requests its policies decide, sent by    *)
(*         any signed-up subject with any of the payloads listed.          *)
(* Spec:   one browser running the Dashboard, with the Dashboards of other *)
(*         browsers approving and rejecting beside it.                     *)
(* SpecContent:  SpecDb with deletes and with updates that store NULL.     *)
(* SpecProfiles: the sign-up hook and the writes to profiles.              *)
(* SpecPolicy:   the evaluation, step by step, of is_admin() and of the    *)
(*               policies of profiles.                                     *)
(* SpecArchive:  the Dashboard's split of the fetched items into current   *)
(*               and archived, at any time and in any time zone.           *)
(***************************************************************************)
EXTENDS Integers, Sequences, FiniteSets, TLC

\* ------------------------------------------------------------------ bounds
MaxItems == 1
MaxTime == 1
MaxDepth == 3
MaxDays == 3

\* --------------------------------------------------------------- constants
Null == {}
Some(v) == {v}

BootstrapEmail == "geral@stagelink.pt"

\* auth.users: the subjects of the identity provider, each with its email
Subjects == {"u1", "u2", "u3"}
EmailOf(u) == CASE u = "u1" -> BootstrapEmail
                [] u = "u2" -> "ana@client.pt"
                [] OTHER    -> "rui@client.pt"

ContentTypes == {"Post", "Story", "Reel", "TikTok"}
Statuses == {"Approved", "Rejected", "Pending"}
StatusDefault == "Pending"

\* content_items columns.  created_at and updated_at (DEFAULT now(), written by
\* no statement or trigger afterwards) are left out.
Columns == {"id", "title", "caption", "content_type", "media_url", "status",
            "schedule_date", "created_by", "assigned_to",
            "rejection_notes", "rejected_at"}

\* ------------------------------------------------------------- input sets
Caption == <<"c">>
MediaUrl == <<"m">>
TypeInputs == {"Post", "Banner"}
StatusInputs == Statuses \cup {"Draft"}
NotesInputs == {<<>>, <<" ">>, <<" ", "n">>}
ScheduleDate == <<"2025-03-01">>
ItemIds == 1..MaxItems
Times == 0..MaxTime

VARIABLES
    now,              \* the clock (now(), new Date())
    auth_users,       \* subjects registered with the identity provider
    profiles,         \* table profiles: a set of rows
    content_items,    \* table content_items: id -> row
    session,          \* the browser's signed-in subject (AuthContext), or Null
    contentItems,     \* Dashboard: the fetched rows (query cache), id -> row
    rejectingItemId,  \* Dashboard state
    rejectionNotes,   \* Dashboard state
    last,             \* the last request and its outcome (history)
    stack,            \* policy evaluation: the calls in progress, innermost last
    result,           \* policy evaluation: the value returned last, or Null
    lookups,          \* policy evaluation: profiles lookups of the evaluation
    timeZone,         \* the browser's offset from UTC, in clock units
    currentContent,   \* Dashboard render: ids of the items classified current
    archivedContent,  \* Dashboard render: ids of the items classified archived
    filteredItems,    \* Dashboard render: ids of the items that pass the filter
    showForm,         \* Dashboard state: the create form is open
    formData,         \* Dashboard state: what the create form holds
    fetching,         \* contentItems query: a fetch or a retry is outstanding
    fetchFailures,    \* contentItems query: failureCount of the fetch
    path,             \* the browser's location (react-router)
    viewMode,         \* Dashboard state: 'list', 'type', 'calendar', 'archive'
    selectedType,     \* Dashboard state: the type filter
    selectedClient    \* Dashboard state: the client filter

dbVars == <<auth_users, profiles, content_items>>
uiVars == <<session, contentItems, rejectingItemId, rejectionNotes>>
evalVars == <<stack, result, lookups>>
viewVars == <<timeZone, currentContent, archivedContent, filteredItems>>
formVars == <<showForm, formData>>
queryVars == <<fetching, fetchFailures>>
navVars == <<path, viewMode, selectedType, selectedClient>>
pageVars == <<formVars, queryVars, navVars>>
vars == <<now, auth_users, profiles, content_items, session, contentItems,
          rejectingItemId, rejectionNotes, last, stack, result, lookups,
          timeZone, currentContent, archivedContent, filteredItems, showForm,
          formData, fetching, fetchFailures, path, viewMode, selectedType,
          selectedClient>>

\* ------------------------------------------------------------ text helper
IsSpace(ch) == ch = " "

RECURSIVE TrimStart(_)
TrimStart(s) == IF s # <<>> /\ IsSpace(Head(s)) THEN TrimStart(Tail(s)) ELSE s

RECURSIVE TrimEnd(_)
TrimEnd(s) == IF s # <<>> /\ IsSpace(s[Len(s)])
              THEN TrimEnd(SubSeq(s, 1, Len(s) - 1)) ELSE s

Trim_None(s) == s

\* String.prototype.trim
Trim(s) == TrimEnd(TrimStart(s))

\* ------------------------------------------------------ profiles and hook
\* a = b in SQL: true only when both sides are non-null and equal
SqlEq(a, b) == a # Null /\ b # Null /\ a = b

is_admin_AnyAdmin(uid) == \E r \in profiles : r.is_admin = TRUE

\* is_admin(): SECURITY DEFINER lookup of the caller's own profile row
is_admin(uid) ==
    \E r \in profiles : SqlEq(Some(r.id), uid) /\ r.is_admin = TRUE

NewProfile_NeverAdmin(u) == [id |-> u, email |-> EmailOf(u), is_admin |-> FALSE]

\* handle_new_user(): the row inserted for a new auth user
NewProfile(u) ==
    [id |-> u, email |-> EmailOf(u), is_admin |-> (EmailOf(u) = BootstrapEmail)]

ProfileIds == {r.id : r \in profiles}

\* ---------------------------------------------------------- RLS policies
ProfileSelectPolicy_OwnOnly(uid, r) == SqlEq(Some(r.id), uid)

\* "Allow users to read own profile" OR "Allow admins to read all profiles"
ProfileSelectPolicy(uid, r) == SqlEq(Some(r.id), uid) \/ is_admin(uid)

ContentSelectPolicy_AssigneeOnly(uid, row) == SqlEq(row.assigned_to, uid)

\* "Allow users to read assigned content"
ContentSelectPolicy(uid, row) == SqlEq(row.assigned_to, uid) \/ is_admin(uid)

ContentInsertCheck_Authenticated(uid, row) == uid # Null

\* "Allow admins to create content"  WITH CHECK
ContentInsertCheck(uid, row) == is_admin(uid)

\* "Allow content management"  USING (also its WITH CHECK, none being given)
ContentManagementPolicy(uid, row) == SqlEq(row.assigned_to, uid) \/ is_admin(uid)

\* "Users can update rejection notes on assigned content" USING / WITH CHECK
RejectionNotesPolicy(uid, row) == SqlEq(uid, row.assigned_to)

\* permissive policies of one command are combined with OR
ContentUpdateUsing(uid, row) ==
    ContentManagementPolicy(uid, row) \/ RejectionNotesPolicy(uid, row)

ContentUpdateCheck_None(uid, row) == TRUE

ContentUpdateCheck_Authenticated(uid, row) == uid # Null

ContentUpdateCheck(uid, row) ==
    ContentManagementPolicy(uid, row) \/ RejectionNotesPolicy(uid, row)

ProfileUpdateUsing_Own(uid, r) == SqlEq(Some(r.id), uid)

\* profiles has row-level security enabled and policies FOR SELECT only: an
\* INSERT, UPDATE or DELETE by an API role finds no policy that admits a row
ProfileUpdateUsing(uid, r) == FALSE

ProfileDeleteUsing(uid, r) == FALSE

ProfileInsertCheck(uid, r) == FALSE

ContentDeleteUsing_Admin(uid, row) == is_admin(uid)

\* content_items has no policy FOR DELETE
ContentDeleteUsing(uid, row) == FALSE

\* ------------------------------------------------------ table constraints
NotNullOk(row) ==
    /\ row.caption # Null
    /\ row.content_type # Null
    /\ row.media_url # Null

\* a CHECK constraint passes on NULL
CheckOk(row) ==
    /\ row.content_type = Null \/ row.content_type \subseteq ContentTypes
    /\ row.status = Null \/ row.status \subseteq Statuses

ForeignKeysOk(row) ==
    /\ row.created_by \subseteq ProfileIds
    /\ row.assigned_to \subseteq ProfileIds

ConstraintsOk(row) == NotNullOk(row) /\ CheckOk(row) /\ ForeignKeysOk(row)

\* column defaults of content_items
DefaultRow(id) ==
    [c \in Columns |->
        CASE c = "id" -> Some(id)
          [] c = "status" -> Some(StatusDefault)
          [] OTHER -> Null]

\* the row an INSERT / UPDATE of the given columns produces
WithColumns(row, payload) ==
    [c \in Columns |-> IF c \in DOMAIN payload THEN payload[c] ELSE row[c]]

StoredIds == DOMAIN content_items
NextId == IF StoredIds = {} THEN 1 ELSE 1 + Cardinality(StoredIds)

\* select * from content_items, as seen by uid
SelectContentItems(uid) ==
    {id \in StoredIds : ContentSelectPolicy(uid, content_items[id])}

\* select * from profiles, as seen by uid
SelectProfiles(uid) == {r \in profiles : ProfileSelectPolicy(uid, r)}

\* -------------------------------------------------------------- requests
Request(op, by, outcome) == [op |-> op, by |-> by, outcome |-> outcome]
Idle == Request("none", Null, "ok")

\* outcome of INSERT INTO content_items by uid
InsertOutcome(uid, row) ==
    IF ~ContentInsertCheck(uid, row) THEN "rls_error"
    ELSE IF ~ConstraintsOk(row) THEN "constraint_error"
    ELSE "ok"

\* outcome of UPDATE content_items SET payload WHERE id = id, by uid
UpdateOutcome(uid, id, payload) ==
    IF id \notin StoredIds THEN "no_rows"
    ELSE IF ~(ContentSelectPolicy(uid, content_items[id])
              /\ ContentUpdateUsing(uid, content_items[id])) THEN "no_rows"
    ELSE IF ~ContentUpdateCheck(uid, WithColumns(content_items[id], payload))
         THEN "rls_error"
    ELSE IF ~ConstraintsOk(WithColumns(content_items[id], payload))
         THEN "constraint_error"
    ELSE "ok"

\* the table after the INSERT
InsertResult(uid, payload) ==
    IF InsertOutcome(uid, WithColumns(DefaultRow(NextId), payload)) = "ok"
    THEN [i \in StoredIds \cup {NextId} |->
            IF i = NextId THEN WithColumns(DefaultRow(NextId), payload)
            ELSE content_items[i]]
    ELSE content_items

UpdateResult_IfPending(uid, id, payload) ==
    IF UpdateOutcome(uid, id, payload) = "ok"
       /\ content_items[id].status = Some("Pending")
    THEN [content_items EXCEPT ![id] = WithColumns(@, payload)]
    ELSE content_items

\* the table after the UPDATE
UpdateResult(uid, id, payload) ==
    IF UpdateOutcome(uid, id, payload) = "ok"
    THEN [content_items EXCEPT ![id] = WithColumns(@, payload)]
    ELSE content_items

\* no policy evaluation in progress
EvalIdle ==
    /\ stack = <<>>
    /\ result = Null
    /\ lookups = 0

\* nothing rendered yet
ViewIdle ==
    /\ timeZone = 0
    /\ currentContent = {}
    /\ archivedContent = {}
    /\ filteredItems = {}

\* the form as useState initialises it: closed, no assignee, type 'Post'
EmptyForm == [assigned_to |-> Null, content_type |-> "Post"]

PageIdle ==
    /\ showForm = FALSE
    /\ formData = EmptyForm
    /\ fetching = FALSE
    /\ fetchFailures = 0
    /\ path = "/"
    /\ viewMode = "list"
    /\ selectedType = "all"
    /\ selectedClient = "all"

Init ==
    /\ now = 0
    /\ auth_users = {}
    /\ profiles = {}
    /\ content_items = <<>>
    /\ session = Null
    /\ contentItems = <<>>
    /\ rejectingItemId = Null
    /\ rejectionNotes = <<>>
    /\ last = Idle
    /\ EvalIdle
    /\ ViewIdle
    /\ PageIdle

Tick ==
    /\ now < MaxTime
    /\ now' = now + 1
    /\ UNCHANGED <<evalVars, viewVars, pageVars>>
    /\ UNCHANGED <<dbVars, uiVars, last>>

SignUp_NoHook(u) ==
    /\ u \notin auth_users
    /\ auth_users' = auth_users \cup {u}
    /\ last' = Request("signup", Some(u), "ok")
    /\ UNCHANGED <<evalVars, viewVars, pageVars>>
    /\ UNCHANGED <<now, profiles, content_items, uiVars>>

\* on_auth_user_created: a new auth user gets its profile row
SignUp(u) ==
    /\ u \notin auth_users
    /\ auth_users' = auth_users \cup {u}
    /\ profiles' = profiles \cup {NewProfile(u)}
    /\ last' = Request("signup", Some(u), "ok")
    /\ UNCHANGED <<evalVars, viewVars, pageVars>>
    /\ UNCHANGED <<now, content_items, uiVars>>

\* ------------------------------------------------ requests to the database
\* who may send a request: any signed-up subject
Requesters == {Some(u) : u \in auth_users}

AssigneeInputs == {Some("u2"), Some("u3"), Null}

\* the columns the create form sends
FormColumns(t, a, uid) ==
    [caption |-> Some(Caption), content_type |-> Some(t),
     media_url |-> Some(MediaUrl), schedule_date |-> Some(ScheduleDate),
     assigned_to |-> a, created_by |-> uid]

\* INSERT payloads: the form's columns, with a status, with a content type the
\* table does not know, or without a caption
InsertPayloads(uid) ==
    {FormColumns("Post", a, uid) : a \in AssigneeInputs}
    \cup {[c \in DOMAIN FormColumns("Post", Some("u2"), uid) \cup {"status"} |->
            IF c = "status" THEN Some(s)
            ELSE FormColumns("Post", Some("u2"), uid)[c]] : s \in StatusInputs}
    \cup {FormColumns("Banner", Some("u2"), uid)}
    \cup {[content_type |-> Some("Post"), media_url |-> Some(MediaUrl)]}

\* UPDATE payloads
UpdatePayloads ==
    {[status |-> Some(s)] : s \in StatusInputs}
    \cup {[status |-> Some("Rejected"), rejection_notes |-> Some(<<" ", "n">>),
           rejected_at |-> Some(now)]}
    \cup {[assigned_to |-> a] : a \in AssigneeInputs}

\* supabase.from('content_items').insert(payload), sent by uid
InsertContentItem(uid, payload) ==
    /\ Cardinality(StoredIds) < MaxItems
    /\ content_items' = InsertResult(uid, payload)
    /\ last' = Request("insert", uid,
                       InsertOutcome(uid, WithColumns(DefaultRow(NextId), payload)))
    /\ UNCHANGED <<evalVars, viewVars, pageVars>>
    /\ UNCHANGED <<now, auth_users, profiles, uiVars>>

\* supabase.from('content_items').update(payload).eq('id', id), sent by uid
UpdateContentItem(uid, id, payload) ==
    /\ content_items' = UpdateResult(uid, id, payload)
    /\ last' = Request("update", uid, UpdateOutcome(uid, id, payload))
    /\ UNCHANGED <<evalVars, viewVars, pageVars>>
    /\ UNCHANGED <<now, auth_users, profiles, uiVars>>

\* supabase.from('content_items').delete().eq('id', id), sent by uid
DeleteOutcome(uid, id) ==
    IF id \in StoredIds
       /\ ContentSelectPolicy(uid, content_items[id])
       /\ ContentDeleteUsing(uid, content_items[id])
    THEN "ok" ELSE "no_rows"

DeleteContentItem(uid, id) ==
    /\ content_items' =
         IF DeleteOutcome(uid, id) = "ok"
         THEN [i \in StoredIds \ {id} |-> content_items[i]]
         ELSE content_items
    /\ last' = Request("delete", uid, DeleteOutcome(uid, id))
    /\ UNCHANGED <<evalVars, viewVars, pageVars>>
    /\ UNCHANGED <<now, auth_users, profiles, uiVars>>

\* the rows of profiles with id = u that an UPDATE / a DELETE of uid may touch
ProfileUpdateTargets(uid, u) ==
    {r \in profiles :
        r.id = u /\ ProfileSelectPolicy(uid, r) /\ ProfileUpdateUsing(uid, r)}

ProfileDeleteTargets(uid, u) ==
    {r \in profiles :
        r.id = u /\ ProfileSelectPolicy(uid, r) /\ ProfileDeleteUsing(uid, r)}

\* supabase.from('profiles').update({is_admin: flag}).eq('id', u), sent by uid
UpdateProfile(uid, u, flag) ==
    /\ profiles' = {IF r \in ProfileUpdateTargets(uid, u)
                    THEN [r EXCEPT !.is_admin = flag] ELSE r : r \in profiles}
    /\ last' = Request("updateProfile", uid,
                 IF ProfileUpdateTargets(uid, u) = {}
                 THEN "no_rows" ELSE "ok")
    /\ UNCHANGED <<evalVars, viewVars, pageVars>>
    /\ UNCHANGED <<now, auth_users, content_items, uiVars>>

\* content_items.created_by and assigned_to reference profiles(id)
Referenced(u) ==
    \E id \in StoredIds :
        Some(u) \in {content_items[id].created_by, content_items[id].assigned_to}

\* supabase.from('profiles').delete().eq('id', u), sent by uid
DeleteProfileOutcome(uid, u) ==
    IF ProfileDeleteTargets(uid, u) = {} THEN "no_rows"
    ELSE IF Referenced(u) THEN "constraint_error"
    ELSE "ok"

DeleteProfile(uid, u) ==
    /\ profiles' = IF DeleteProfileOutcome(uid, u) = "ok"
                   THEN profiles \ ProfileDeleteTargets(uid, u)
                   ELSE profiles
    /\ last' = Request("deleteProfile", uid, DeleteProfileOutcome(uid, u))
    /\ UNCHANGED <<evalVars, viewVars, pageVars>>
    /\ UNCHANGED <<now, auth_users, content_items, uiVars>>

\* supabase.from('profiles').insert({id: u, email, is_admin: flag}), sent by
\* uid: the policy check, then the primary key, the unique email and the
\* reference to auth.users
InsertProfileOutcome(uid, row) ==
    IF ~ProfileInsertCheck(uid, row) THEN "rls_error"
    ELSE IF row.id \in ProfileIds
            \/ row.email \in {r.email : r \in profiles}
            \/ row.id \notin auth_users THEN "constraint_error"
    ELSE "ok"

InsertProfile(uid, u, flag) ==
    /\ profiles' =
         IF InsertProfileOutcome(uid, [NewProfile(u) EXCEPT !.is_admin = flag]) = "ok"
         THEN profiles \cup {[NewProfile(u) EXCEPT !.is_admin = flag]}
         ELSE profiles
    /\ last' = Request("insertProfile", uid,
                 InsertProfileOutcome(uid, [NewProfile(u) EXCEPT !.is_admin = flag]))
    /\ UNCHANGED <<evalVars, viewVars, pageVars>>
    /\ UNCHANGED <<now, auth_users, content_items, uiVars>>

\* ------------------------------------------------------ policy evaluation
\* Who may call is_admin() through the API: any signed-up subject, and the
\* anonymous caller, whose auth.uid() is NULL.
Callers == Requesters \cup {Null}

\* the evaluation of the profiles SELECT policies on row r for uid
PolicyFrame(uid, r) ==
    [fn |-> "profiles_policy", uid |-> uid, row |-> Some(r), pc |-> "start"]

\* a call of is_admin() with auth.uid() = uid
IsAdminFrame(uid) ==
    [fn |-> "is_admin", uid |-> uid, row |-> Null, pc |-> "start"]

Top == stack[Len(stack)]
Pop == SubSeq(stack, 1, Len(stack) - 1)
Called == [stack EXCEPT ![Len(stack)].pc = "called"]

IsAdminRunsAs_Invoker == "invoker"

\* is_admin() is SECURITY DEFINER: its body runs as the function's owner, who
\* owns profiles, and row-level security does not apply to a table's owner
IsAdminRunsAs == "definer"

\* SELECT ... FROM profiles by uid reaches row r: its policies are evaluated
SelectProfileRow(uid, r) ==
    /\ stack = <<>>
    /\ stack' = <<PolicyFrame(uid, r)>>
    /\ result' = Null
    /\ lookups' = 0
    /\ last' = Request("selectProfile", uid, "ok")
    /\ UNCHANGED <<viewVars, pageVars, now, dbVars, uiVars>>

\* supabase.rpc('is_admin') by uid
CallIsAdmin(uid) ==
    /\ stack = <<>>
    /\ stack' = <<IsAdminFrame(uid)>>
    /\ result' = Null
    /\ lookups' = 0
    /\ last' = Request("is_admin", uid, "ok")
    /\ UNCHANGED <<viewVars, pageVars, now, dbVars, uiVars>>

\* One step of the policies of profiles on a row: "Allow users to read own
\* profile" (id = auth.uid()) OR "Allow admins to read all profiles"
\* (is_admin()), in either order.
PolicyStep ==
    /\ stack # <<>>
    /\ Top.fn = "profiles_policy"
    /\ \/ /\ Top.pc = "start"
          /\ \E r \in Top.row : SqlEq(Some(r.id), Top.uid)
          /\ stack' = Pop
          /\ result' = Some(TRUE)
       \/ /\ Top.pc = "start"
          /\ Len(stack) < MaxDepth
          /\ stack' = Called \o <<IsAdminFrame(Top.uid)>>
          /\ result' = Null
       \/ /\ Top.pc = "called"
          /\ result # Null
          /\ stack' = Pop
          /\ result' = Some((\E r \in Top.row : SqlEq(Some(r.id), Top.uid))
                             \/ result = Some(TRUE))
    /\ UNCHANGED <<lookups, viewVars, pageVars, now, dbVars, uiVars, last>>

\* One step of is_admin(): the lookup of the caller's row in profiles.  Run as
\* the definer the lookup reads the table itself; run as the invoker the row
\* would first have to pass the policies of profiles.
IsAdminStep ==
    /\ stack # <<>>
    /\ Top.fn = "is_admin"
    /\ IF Top.pc = "called"
       THEN /\ result # Null
            /\ stack' = Pop
            /\ result' = Some(result = Some(TRUE) /\ is_admin(Top.uid))
            /\ lookups' = lookups
       ELSE IF IsAdminRunsAs = "definer"
               \/ ~(\E r \in profiles : SqlEq(Some(r.id), Top.uid))
       THEN /\ stack' = Pop
            /\ result' = Some(is_admin(Top.uid))
            /\ lookups' = lookups + 1
       ELSE /\ Len(stack) < MaxDepth
            /\ \E r \in profiles :
                /\ SqlEq(Some(r.id), Top.uid)
                /\ stack' = Called \o <<PolicyFrame(Top.uid, r)>>
            /\ result' = Null
            /\ lookups' = lookups + 1
    /\ UNCHANGED <<viewVars, pageVars, now, dbVars, uiVars, last>>

NextPolicy ==
    \/ \E u \in Subjects : stack = <<>> /\ SignUp(u)
    \/ \E uid \in Requesters : \E r \in profiles : SelectProfileRow(uid, r)
    \/ \E uid \in Callers : CallIsAdmin(uid)
    \/ PolicyStep
    \/ IsAdminStep

\* a query in progress is carried on until it returns
SpecPolicy ==
    Init /\ [][NextPolicy]_vars /\ WF_vars(PolicyStep) /\ WF_vars(IsAdminStep)

\* ------------------------------------------------------------ Dashboard
\* AuthContext: the profile row of the signed-in subject
ProfileOf(sess) == {r \in profiles : Some(r.id) = sess}

Profile == ProfileOf(session)

IsAdminEmail_AnyProfile(sess) == ProfileOf(sess) # {}

\* const isAdmin = profile?.email === 'geral@stagelink.pt'
IsAdminEmail(sess) == \E r \in ProfileOf(sess) : r.email = BootstrapEmail

isAdmin == IsAdminEmail(session)

\* the contentItems query: all rows RLS lets through, for a non-admin
\* narrowed with .eq('assigned_to', profile.id); [] without a profile
QueryIds(sess, table) ==
    IF ProfileOf(sess) = {} THEN {}
    ELSE {id \in DOMAIN table :
            /\ ContentSelectPolicy(sess, table[id])
            /\ IsAdminEmail(sess) \/ SqlEq(table[id].assigned_to, sess)}

\* the columns of a fetched item the Dashboard's logic reads; the rejection
\* fields of a fetched item are only displayed
FetchedColumns == Columns \ {"rejection_notes", "rejected_at"}

Fetched(row) == [c \in FetchedColumns |-> row[c]]

QueryContentItems(sess, table) ==
    [id \in QueryIds(sess, table) |-> Fetched(table[id])]

ApprovePayload_ClearsNotes ==
    [status |-> Some("Approved"), rejection_notes |-> Some(<<>>)]

\* what handleStatusUpdate sends for 'Approved'
ApprovePayload == [status |-> Some("Approved")]

RejectPayload_Trimmed(notes) ==
    [status |-> Some("Rejected"), rejection_notes |-> Some(Trim(notes)),
     rejected_at |-> Some(now)]

\* what handleReject sends
RejectPayload(notes) ==
    [status |-> Some("Rejected"), rejection_notes |-> Some(notes),
     rejected_at |-> Some(now)]

\* what handleSubmit sends: the form's fields, created_by and status
SubmitPayload(a) ==
    [title |-> Some(<<>>), caption |-> Some(Caption),
     content_type |-> Some("Post"), media_url |-> Some(MediaUrl),
     schedule_date |-> Some(ScheduleDate), assigned_to |-> a,
     created_by |-> session, status |-> Some("Pending")]

\* the subjects that use the browser modelled; the others use other browsers
LocalSubjects == {"u1", "u2"}

\* Login.handleSubmit: signIn, then the Dashboard mounts and runs its query
SignIn(u) ==
    /\ session = Null
    /\ u \in auth_users
    /\ session' = Some(u)
    /\ contentItems' = QueryContentItems(Some(u), content_items)
    /\ rejectingItemId' = Null
    /\ rejectionNotes' = <<>>
    /\ last' = Idle
    /\ UNCHANGED <<evalVars, viewVars, pageVars>>
    /\ UNCHANGED <<now, dbVars>>

\* Header: Log Out; the Dashboard unmounts
SignOut ==
    /\ session # Null
    /\ session' = Null
    /\ contentItems' = <<>>
    /\ rejectingItemId' = Null
    /\ rejectionNotes' = <<>>
    /\ last' = Idle
    /\ UNCHANGED <<evalVars, viewVars, pageVars>>
    /\ UNCHANGED <<now, dbVars>>

\* the query runs again (refetch on focus, on remount)
Refetch ==
    /\ session # Null
    /\ contentItems' = QueryContentItems(session, content_items)
    /\ last' = Idle
    /\ UNCHANGED <<evalVars, viewVars, pageVars>>
    /\ UNCHANGED <<now, dbVars, session, rejectingItemId, rejectionNotes>>

\* the approve and reject buttons of an item are rendered while the fetched
\* item is Pending (in the list view, the view the Dashboard opens in)
ButtonsShown(id) ==
    /\ id \in DOMAIN contentItems
    /\ contentItems[id].status = Some("Pending")

OpenRejectDialog_KeepsNotes(id) ==
    /\ ButtonsShown(id)
    /\ rejectingItemId' = Some(id)
    /\ last' = Request("openReject", session, "not_sent")
    /\ UNCHANGED <<evalVars, viewVars, pageVars>>
    /\ UNCHANGED <<now, dbVars, session, contentItems, rejectionNotes>>

\* handleStatusUpdate(id, 'Rejected'): opens the rejection dialog
OpenRejectDialog(id) ==
    /\ ButtonsShown(id)
    /\ rejectingItemId' = Some(id)
    /\ rejectionNotes' = <<>>
    /\ last' = Request("openReject", session, "not_sent")
    /\ UNCHANGED <<evalVars, viewVars, pageVars>>
    /\ UNCHANGED <<now, dbVars, session, contentItems>>

\* handleStatusUpdate(id, 'Approved'); failed: the request did not get through
ApproveItem(id, failed) ==
    /\ ButtonsShown(id)
    /\ IF failed
       THEN /\ last' = Request("approve", session, "transport_error")
            /\ UNCHANGED <<content_items, contentItems>>
       ELSE /\ content_items' = UpdateResult(session, id, ApprovePayload)
            /\ last' = Request("approve", session,
                               UpdateOutcome(session, id, ApprovePayload))
            /\ contentItems' =
                 IF UpdateOutcome(session, id, ApprovePayload) \in {"ok", "no_rows"}
                 THEN QueryContentItems(session,
                        UpdateResult(session, id, ApprovePayload))
                 ELSE contentItems
    /\ UNCHANGED <<evalVars, viewVars, pageVars>>
    /\ UNCHANGED <<now, auth_users, profiles, session, rejectingItemId,
                   rejectionNotes>>

handleStatusUpdate(id, status, failed) ==
    IF status = "Rejected" THEN ~failed /\ OpenRejectDialog(id)
    ELSE ApproveItem(id, failed)

\* the dialog's textarea: onChange
SetRejectionNotes(n) ==
    /\ rejectingItemId # Null
    /\ rejectionNotes' = n
    /\ last' = Idle
    /\ UNCHANGED <<evalVars, viewVars, pageVars>>
    /\ UNCHANGED <<now, dbVars, session, contentItems, rejectingItemId>>

\* the dialog's Cancel and close buttons
CancelReject ==
    /\ rejectingItemId # Null
    /\ rejectingItemId' = Null
    /\ last' = Request("cancelReject", session, "not_sent")
    /\ UNCHANGED <<evalVars, viewVars, pageVars>>
    /\ UNCHANGED <<now, dbVars, session, contentItems, rejectionNotes>>

RejectingId == CHOOSE id \in rejectingItemId : TRUE

\* handleReject
handleReject(failed) ==
    /\ session # Null
    /\ IF rejectingItemId = Null \/ Trim(rejectionNotes) = <<>>
       THEN /\ ~failed
            /\ last' = Request("reject", session, "not_sent")
            /\ UNCHANGED <<content_items, contentItems, rejectingItemId,
                           rejectionNotes>>
       ELSE IF failed
       THEN /\ last' = Request("reject", session, "transport_error")
            /\ UNCHANGED <<content_items, contentItems, rejectingItemId,
                           rejectionNotes>>
       ELSE /\ content_items' =
                 UpdateResult(session, RejectingId, RejectPayload(rejectionNotes))
            /\ last' = Request("reject", session,
                   UpdateOutcome(session, RejectingId, RejectPayload(rejectionNotes)))
            /\ IF UpdateOutcome(session, RejectingId, RejectPayload(rejectionNotes))
                    \in {"ok", "no_rows"}
               THEN /\ rejectingItemId' = Null
                    /\ rejectionNotes' = <<>>
                    /\ contentItems' = QueryContentItems(session,
                         UpdateResult(session, RejectingId,
                                      RejectPayload(rejectionNotes)))
               ELSE UNCHANGED <<contentItems, rejectingItemId, rejectionNotes>>
    /\ UNCHANGED <<evalVars, viewVars, pageVars>>
    /\ UNCHANGED <<now, auth_users, profiles, session>>

MissingAssignee_Never(payload) == FALSE

\* if (!formData.assigned_to): nothing is selected in the Assign To select
MissingAssignee(payload) == payload.assigned_to = Null

\* the body of handleSubmit for the insert payload the form yields: the guard,
\* the insert and, when it returned no error, the refetch
CreateContent(payload, failed) ==
    /\ isAdmin
    /\ Cardinality(StoredIds) < MaxItems
    /\ IF MissingAssignee(payload)
       THEN /\ ~failed
            /\ last' = Request("submit", session, "not_sent")
            /\ UNCHANGED <<content_items, contentItems>>
       ELSE IF failed
       THEN /\ last' = Request("submit", session, "transport_error")
            /\ UNCHANGED <<content_items, contentItems>>
       ELSE /\ content_items' = InsertResult(session, payload)
            /\ last' = Request("submit", session,
                   InsertOutcome(session, WithColumns(DefaultRow(NextId), payload)))
            /\ contentItems' =
                 IF InsertOutcome(session,
                       WithColumns(DefaultRow(NextId), payload)) = "ok"
                 THEN QueryContentItems(session, InsertResult(session, payload))
                 ELSE contentItems
    /\ UNCHANGED <<evalVars, viewVars>>
    /\ UNCHANGED <<now, auth_users, profiles, session, rejectingItemId,
                   rejectionNotes>>

\* handleSubmit of the create form (shown to isAdmin); a is the assignee the
\* form holds when it is submitted, Null when none is selected.  The form's
\* own state is not followed here (SubmitForm follows it).
handleSubmit(a, failed) ==
    /\ CreateContent(SubmitPayload(a), failed)
    /\ UNCHANGED pageVars

\* the assignee select of the form: the non-admin profiles, or nothing chosen
FormAssignees == {Some(r.id) : r \in {q \in SelectProfiles(session) :
                                        q.is_admin = FALSE}} \cup {Null}

\* the content types the form's select is set to here
FormTypes == {"Post", "Reel"}

\* the insert payload of a form: ...formData, created_by, status
FormPayload(form) ==
    [c \in DOMAIN SubmitPayload(form.assigned_to) |->
        IF c = "content_type" THEN Some(form.content_type)
        ELSE SubmitPayload(form.assigned_to)[c]]

\* the Add Content button (rendered for isAdmin): setShowForm(true)
OpenForm ==
    /\ isAdmin
    /\ showForm' = TRUE
    /\ last' = Idle
    /\ UNCHANGED <<evalVars, viewVars, formData, queryVars, navVars>>
    /\ UNCHANGED <<now, dbVars, uiVars>>

\* the form's Cancel and close buttons: setShowForm(false)
CloseForm ==
    /\ showForm
    /\ showForm' = FALSE
    /\ last' = Idle
    /\ UNCHANGED <<evalVars, viewVars, formData, queryVars, navVars>>
    /\ UNCHANGED <<now, dbVars, uiVars>>

\* onChange of the form's Assign To and Content Type selects
SetFormData(a, t) ==
    /\ showForm
    /\ formData' = [assigned_to |-> a, content_type |-> t]
    /\ last' = Idle
    /\ UNCHANGED <<evalVars, viewVars, showForm, queryVars, navVars>>
    /\ UNCHANGED <<now, dbVars, uiVars>>

\* handleSubmit, with the form's state: the form is closed and emptied when
\* the insert returned no error
SubmitForm(failed) ==
    /\ showForm
    /\ CreateContent(FormPayload(formData), failed)
    /\ IF last'.outcome = "ok"
       THEN /\ showForm' = FALSE
            /\ formData' = EmptyForm
       ELSE UNCHANGED <<showForm, formData>>
    /\ UNCHANGED <<queryVars, navVars>>

\* the Dashboard of another browser, signed in as uid, approves or rejects an
\* item it fetched as Pending (items are Pending when first fetched)
DashboardUpdates == {ApprovePayload, RejectPayload(<<" ", "n">>)}

RemoteUpdate(uid, id, payload) ==
    /\ uid # session
    /\ UpdateOutcome(uid, id, payload) = "ok"
    /\ content_items' = UpdateResult(uid, id, payload)
    /\ last' = Request("remote", Null, "ok")
    /\ UNCHANGED <<evalVars, viewVars, pageVars>>
    /\ UNCHANGED <<now, auth_users, profiles, uiVars>>

\* ------------------------------------- Dashboard: the requests, one by one
\* Here the refetch that follows a write is not taken to succeed at once: the
\* contentItems query is followed attempt by attempt.
\* new QueryClient() sets no defaultOptions: a query whose queryFn throws is
\* run again up to the library's default of 3 times
QueryRetries == 3

\* Login.handleSubmit: signIn; on success the Dashboard mounts and its
\* contentItems query starts to fetch
SignInSent(u, failed) ==
    /\ session = Null
    /\ u \in auth_users
    /\ IF failed
       THEN /\ last' = Request("signIn", Null, "transport_error")
            /\ UNCHANGED <<session, contentItems, rejectingItemId,
                           rejectionNotes, fetching, fetchFailures>>
       ELSE /\ session' = Some(u)
            /\ contentItems' = <<>>
            /\ rejectingItemId' = Null
            /\ rejectionNotes' = <<>>
            /\ last' = Request("signIn", Some(u), "ok")
            /\ fetching' = TRUE
            /\ fetchFailures' = 0
    /\ UNCHANGED <<evalVars, viewVars, formVars, navVars>>
    /\ UNCHANGED <<now, dbVars>>

\* handleStatusUpdate(id, 'Approved'): the update, then refetch() unless the
\* update returned an error
ApproveSent(id, failed) ==
    /\ ButtonsShown(id)
    /\ IF failed
       THEN /\ last' = Request("approve", session, "transport_error")
            /\ UNCHANGED <<content_items, fetching, fetchFailures>>
       ELSE /\ content_items' = UpdateResult(session, id, ApprovePayload)
            /\ last' = Request("approve", session,
                               UpdateOutcome(session, id, ApprovePayload))
            /\ IF UpdateOutcome(session, id, ApprovePayload) \in {"ok", "no_rows"}
               THEN /\ fetching' = TRUE
                    /\ fetchFailures' = 0
               ELSE UNCHANGED <<fetching, fetchFailures>>
    /\ UNCHANGED <<evalVars, viewVars, formVars, navVars>>
    /\ UNCHANGED <<now, auth_users, profiles, uiVars>>

\* handleReject: the update, then the dialog is closed and refetch() is called
\* unless the update returned an error
RejectSent(failed) ==
    /\ session # Null
    /\ IF rejectingItemId = Null \/ Trim(rejectionNotes) = <<>>
       THEN /\ ~failed
            /\ last' = Request("reject", session, "not_sent")
            /\ UNCHANGED <<content_items, rejectingItemId, rejectionNotes,
                           fetching, fetchFailures>>
       ELSE IF failed
       THEN /\ last' = Request("reject", session, "transport_error")
            /\ UNCHANGED <<content_items, rejectingItemId, rejectionNotes,
                           fetching, fetchFailures>>
       ELSE /\ content_items' =
                 UpdateResult(session, RejectingId, RejectPayload(rejectionNotes))
            /\ last' = Request("reject", session,
                   UpdateOutcome(session, RejectingId, RejectPayload(rejectionNotes)))
            /\ IF UpdateOutcome(session, RejectingId, RejectPayload(rejectionNotes))
                    \in {"ok", "no_rows"}
               THEN /\ rejectingItemId' = Null
                    /\ rejectionNotes' = <<>>
                    /\ fetching' = TRUE
                    /\ fetchFailures' = 0
               ELSE UNCHANGED <<rejectingItemId, rejectionNotes, fetching,
                                fetchFailures>>
    /\ UNCHANGED <<evalVars, viewVars, formVars, navVars>>
    /\ UNCHANGED <<now, auth_users, profiles, session, contentItems>>

\* one run of the query's queryFn: the select.  When it throws, failureCount
\* grows and the library runs it again, until QueryRetries retries have failed
QueryAttempt(failed) ==
    /\ session # Null
    /\ fetching
    /\ IF failed
       THEN /\ fetchFailures' = fetchFailures + 1
            /\ fetching' = (fetchFailures < QueryRetries)
            /\ last' = Request("select", session, "transport_error")
            /\ UNCHANGED contentItems
       ELSE /\ contentItems' = QueryContentItems(session, content_items)
            /\ fetching' = FALSE
            /\ fetchFailures' = 0
            /\ last' = Request("select", session, "ok")
    /\ UNCHANGED <<evalVars, viewVars, formVars, navVars>>
    /\ UNCHANGED <<now, dbVars, session, rejectingItemId, rejectionNotes>>

\* ------------------------------------------------------------ App: routes
Paths == {"/", "/login", "/admin"}

\* what a page shows is a set of its parts
AccessDenied_Never(sess) == FALSE

\* AdminDashboard: if (profile?.email !== 'geral@stagelink.pt')
AccessDenied(sess) == ~IsAdminEmail(sess)

\* function ProtectedRoute
ProtectedRoute(sess, children) ==
    IF sess = Null THEN {"Navigate"} ELSE children

\* what AdminDashboard returns
AdminDashboard(sess, formOpen) ==
    IF AccessDenied(sess) THEN {"AccessDenied"}
    ELSE {"Header", "AddContent", "table"}
         \cup (IF formOpen THEN {"form"} ELSE {})

\* AppRoutes: the element of the route that matches the location
Rendered ==
    CASE path = "/login" -> {"Navigate"}
      [] path = "/admin" ->
            ProtectedRoute(session, AdminDashboard(session, showForm))
      [] OTHER -> IF session # Null THEN {"Dashboard"} ELSE {"Login"}

\* the user opens a location; the page that was shown unmounts
Visit(p) ==
    /\ p # path
    /\ path' = p
    /\ viewMode' = "list"
    /\ selectedType' = "all"
    /\ selectedClient' = "all"
    /\ showForm' = FALSE
    /\ formData' = EmptyForm
    /\ rejectingItemId' = Null
    /\ rejectionNotes' = <<>>
    /\ last' = Idle
    /\ UNCHANGED <<evalVars, viewVars, queryVars>>
    /\ UNCHANGED <<now, dbVars, session, contentItems>>

\* <Navigate to="/" />
Redirect ==
    /\ "Navigate" \in Rendered
    /\ path' = "/"
    /\ last' = Idle
    /\ UNCHANGED <<evalVars, viewVars, queryVars, formVars, viewMode,
                   selectedType, selectedClient>>
    /\ UNCHANGED <<now, dbVars, uiVars>>

\* AdminDashboard: the Add Content button
AdminOpenForm ==
    /\ "AddContent" \in Rendered
    /\ showForm' = TRUE
    /\ last' = Idle
    /\ UNCHANGED <<evalVars, viewVars, formData, queryVars, navVars>>
    /\ UNCHANGED <<now, dbVars, uiVars>>

\* what AdminDashboard.handleSubmit sends: its form has no title
AdminPayload(a) ==
    [c \in DOMAIN SubmitPayload(a) \ {"title"} |-> SubmitPayload(a)[c]]

\* AdminDashboard.handleSubmit; a is the assignee the form holds
AdminSubmit(a, failed) ==
    /\ "form" \in Rendered
    /\ CreateContent(AdminPayload(a), failed)
    /\ showForm' = (last'.outcome # "ok")
    /\ UNCHANGED <<formData, queryVars, navVars>>

\* ------------------------------------------------- Dashboard: the archive
\* In SpecArchive a clock unit is a quarter of a day; instants are counted in
\* UTC and the browser's time zone is an offset of whole units.
DayLength == 4
TimeZones == {-1, 0, 1}

\* the dates the form's date input can hold, as day numbers
Days == 0..(MaxDays - 1)
Instants == 0..(MaxDays * DayLength - 1)

\* a 'yyyy-MM-dd' string written to the timestamptz column schedule_date:
\* midnight of that date in the time zone of the database session, UTC
ToTimestamptz(d) == d * DayLength

\* a timestamptz as the API returns it: an ISO 8601 string in UTC
IsoString(t) == [date |-> t \div DayLength, time |-> t % DayLength, offset |-> 0]

\* date-fns parseISO: the instant the string denotes
parseISO(str) == str.date * DayLength + str.time - str.offset

\* date-fns startOfDay: midnight, in the browser's time zone, of the day of t
startOfDay(t) == ((t + timeZone) \div DayLength) * DayLength - timeZone

isBefore(a, b) == a < b

\* const today = startOfDay(new Date())
today == startOfDay(now)

\* isBefore(startOfDay(parseISO(item.schedule_date)), today)
IsArchived(item) ==
    \E str \in item.schedule_date : isBefore(startOfDay(parseISO(str)), today)

\* the row stored for a form submitted with schedule_date d, as fetched
ScheduledItem(id, d) ==
    Fetched(WithColumns(DefaultRow(id),
        [c \in DOMAIN FormColumns("Post", Some("u2"), Some("u1")) |->
            IF c = "schedule_date" THEN Some(IsoString(ToTimestamptz(d)))
            ELSE FormColumns("Post", Some("u2"), Some("u1"))[c]]))

\* the contentItems query returns one more item, scheduled through the form
FetchScheduled(id, d) ==
    /\ id \notin DOMAIN contentItems
    /\ contentItems' = [i \in DOMAIN contentItems \cup {id} |->
                          IF i = id THEN ScheduledItem(id, d) ELSE contentItems[i]]
    /\ UNCHANGED <<now, dbVars, session, rejectingItemId, rejectionNotes, last,
                   evalVars, viewVars, pageVars>>

\* the embedded assigned_to_profile of a fetched item: the assignee's profile
\* row as the profiles policy lets the session read it, or nothing
AssigneeEmail(item) ==
    {r.email : r \in {q \in SelectProfiles(session) : Some(q.id) = item.assigned_to}}

PassesFilter_ListAnyStatus(item, mode, type, client) ==
    \/ mode = "calendar"
    \/ mode = "archive" /\ IsArchived(item)
    \/ /\ mode \in {"list", "type"}
       /\ ~IsArchived(item)
       /\ type = "all" \/ item.content_type = Some(type)
       /\ client = "all" \/ AssigneeEmail(item) = Some(client)

\* the predicate of contentItems.filter; selectedStatus is 'all' throughout
\* (nothing calls setSelectedStatus), so matchesStatus is true
PassesFilter(item, mode, type, client) ==
    CASE mode = "calendar" -> TRUE
      [] mode = "archive" -> IsArchived(item)
      [] mode = "list" ->
            /\ ~IsArchived(item)
            /\ item.status = Some("Pending") \/ item.status = Some("Rejected")
            /\ type = "all" \/ item.content_type = Some(type)
            /\ client = "all" \/ AssigneeEmail(item) = Some(client)
      [] OTHER ->
            /\ ~IsArchived(item)
            /\ type = "all" \/ item.content_type = Some(type)
            /\ client = "all" \/ AssigneeEmail(item) = Some(client)

\* const filteredItems = contentItems.filter(...)
FilteredItems(items, mode, type, client) ==
    {id \in DOMAIN items : PassesFilter(items[id], mode, type, client)}

\* what a render computes from the fetched items and the view state:
\* contentItems.reduce into the two lists, and contentItems.filter
RenderOf(items, mode, type, client) ==
    /\ archivedContent' = {id \in DOMAIN items : IsArchived(items[id])}
    /\ currentContent' = {id \in DOMAIN items : ~IsArchived(items[id])}
    /\ filteredItems' = FilteredItems(items, mode, type, client)

\* a render of the Dashboard
Render ==
    /\ RenderOf(contentItems, viewMode, selectedType, selectedClient)
    /\ UNCHANGED <<now, dbVars, uiVars, last, evalVars, timeZone, pageVars>>

\* the items each view maps over: renderArchive takes archivedContent, the
\* other views take filteredItems (the calendar lays them out by day)
ShownItems == IF viewMode = "archive" THEN archivedContent ELSE filteredItems

ViewModes == {"list", "type", "calendar", "archive"}

\* the options of the type filter set here, and those of the client filter:
\* the profiles the form's query returned
TypeOptions == {"all"} \cup FormTypes
ClientOptions ==
    {"all"} \cup {r.email : r \in {q \in SelectProfiles(session) :
                                     q.is_admin = FALSE}}

\* the view buttons: setViewMode(m), and the render that follows
SetViewMode(m) ==
    /\ viewMode' = m
    /\ RenderOf(contentItems, m, selectedType, selectedClient)
    /\ UNCHANGED <<now, dbVars, uiVars, last, evalVars, timeZone, formVars,
                   queryVars, path, selectedType, selectedClient>>

\* the type filter, rendered in the list view: setSelectedType(t)
SetSelectedType(t) ==
    /\ viewMode = "list"
    /\ selectedType' = t
    /\ RenderOf(contentItems, viewMode, t, selectedClient)
    /\ UNCHANGED <<now, dbVars, uiVars, last, evalVars, timeZone, formVars,
                   queryVars, path, viewMode, selectedClient>>

\* the client filter, rendered in the list view for isAdmin
SetSelectedClient(c) ==
    /\ viewMode = "list"
    /\ isAdmin
    /\ selectedClient' = c
    /\ RenderOf(contentItems, viewMode, selectedType, c)
    /\ UNCHANGED <<now, dbVars, uiVars, last, evalVars, timeZone, formVars,
                   queryVars, path, viewMode, selectedType>>

\* a fetched item scheduled on day d, of type t, with status st, as the form
\* and the approvals leave it
ViewItem(id, d, st, t) ==
    [ScheduledItem(id, d) EXCEPT !.status = Some(st), !.content_type = Some(t)]

\* the contentItems query returns one more item, and the render that follows
FetchItem(id, d, st, t) ==
    /\ id \notin DOMAIN contentItems
    /\ contentItems' = [i \in DOMAIN contentItems \cup {id} |->
                          IF i = id THEN ViewItem(id, d, st, t)
                          ELSE contentItems[i]]
    /\ RenderOf(contentItems', viewMode, selectedType, selectedClient)
    /\ UNCHANGED <<now, dbVars, session, rejectingItemId, rejectionNotes, last,
                   evalVars, timeZone, pageVars>>

\* the browser opens the Dashboard at some time, in some time zone
InitArchive ==
    /\ now \in Instants
    /\ timeZone \in TimeZones
    /\ auth_users = Subjects
    /\ profiles = {NewProfile(u) : u \in Subjects}
    /\ content_items = <<>>
    /\ session = Some("u1")
    /\ contentItems = <<>>
    /\ rejectingItemId = Null
    /\ rejectionNotes = <<>>
    /\ last = Idle
    /\ EvalIdle
    /\ currentContent = {}
    /\ archivedContent = {}
    /\ filteredItems = {}
    /\ PageIdle

NextArchive ==
    \/ \E id \in ItemIds : \E d \in Days : FetchScheduled(id, d)
    \/ Render

SpecArchive == InitArchive /\ [][NextArchive]_vars

InitApp ==
    /\ now = 0
    /\ auth_users = Subjects
    /\ profiles = {NewProfile(u) : u \in Subjects}
    /\ content_items = <<>>
    /\ session = Null
    /\ contentItems = <<>>
    /\ rejectingItemId = Null
    /\ rejectionNotes = <<>>
    /\ last = Idle
    /\ EvalIdle
    /\ ViewIdle
    /\ PageIdle

Next ==
    \/ Tick
    \/ \E u \in LocalSubjects : SignIn(u)
    \/ SignOut
    \/ Refetch
    \/ \E id \in ItemIds : \E st \in {"Approved", "Rejected"} :
         \E failed \in BOOLEAN : handleStatusUpdate(id, st, failed)
    \/ \E n \in NotesInputs : SetRejectionNotes(n)
    \/ CancelReject
    \/ \E failed \in BOOLEAN : handleReject(failed)
    \/ \E a \in FormAssignees : \E failed \in BOOLEAN : handleSubmit(a, failed)
    \/ \E uid \in Requesters : \E id \in ItemIds : \E p \in DashboardUpdates :
            RemoteUpdate(uid, id, p)

Spec == InitApp /\ [][Next]_vars

NextDb ==
    \/ \E u \in Subjects : SignUp(u)
    \/ \E uid \in Requesters : \E p \in InsertPayloads(uid) :
            InsertContentItem(uid, p)
    \/ \E uid \in Requesters : \E id \in ItemIds : \E p \in UpdatePayloads :
            UpdateContentItem(uid, id, p)

SpecDb == Init /\ [][NextDb]_vars

\* an UPDATE that sets a column to NULL
NullPayloads == {[status |-> Null]}

\* content_items under every command a signed-up subject can send
NextContent ==
    \/ \E u \in Subjects : SignUp(u)
    \/ \E uid \in Requesters : \E p \in InsertPayloads(uid) :
            InsertContentItem(uid, p)
    \/ \E uid \in Requesters : \E id \in ItemIds :
         \E p \in UpdatePayloads \cup NullPayloads : UpdateContentItem(uid, id, p)
    \/ \E uid \in Requesters : \E id \in ItemIds : DeleteContentItem(uid, id)

SpecContent == Init /\ [][NextContent]_vars

\* the hook, and the writes to profiles that signed-up subjects can send
NextProfiles ==
    \/ \E u \in Subjects : SignUp(u)
    \/ \E uid \in Requesters : \E p \in InsertPayloads(uid) :
            InsertContentItem(uid, p)
    \/ \E uid \in Requesters : \E u \in Subjects : \E flag \in BOOLEAN :
            UpdateProfile(uid, u, flag)
    \/ \E uid \in Requesters : \E u \in Subjects : DeleteProfile(uid, u)
    \/ \E uid \in Requesters : \E u \in Subjects : \E flag \in BOOLEAN :
            InsertProfile(uid, u, flag)

SpecProfiles == Init /\ [][NextProfiles]_vars

\* the Dashboard of the signed-in administrator, with its create form
InitForm ==
    /\ now = 0
    /\ auth_users = Subjects
    /\ profiles = {NewProfile(u) : u \in Subjects}
    /\ content_items = <<>>
    /\ session = Some("u1")
    /\ contentItems = <<>>
    /\ rejectingItemId = Null
    /\ rejectionNotes = <<>>
    /\ last = Idle
    /\ EvalIdle
    /\ ViewIdle
    /\ PageIdle

NextForm ==
    \/ Tick
    \/ OpenForm
    \/ CloseForm
    \/ \E a \in FormAssignees : \E t \in FormTypes : SetFormData(a, t)
    \/ \E failed \in BOOLEAN : SubmitForm(failed)

SpecForm == InitForm /\ [][NextForm]_vars

\* one item, created through the form and assigned to u2, is stored; nobody
\* is signed in
InitRetry ==
    /\ now = 0
    /\ auth_users = Subjects
    /\ profiles = {NewProfile(u) : u \in Subjects}
    /\ content_items = [id \in {1} |->
          WithColumns(DefaultRow(id), FormColumns("Post", Some("u2"), Some("u1")))]
    /\ session = Null
    /\ contentItems = <<>>
    /\ rejectingItemId = Null
    /\ rejectionNotes = <<>>
    /\ last = Idle
    /\ EvalIdle
    /\ ViewIdle
    /\ PageIdle

NextRetry ==
    \/ \E u \in LocalSubjects : \E failed \in BOOLEAN : SignInSent(u, failed)
    \/ SignOut
    \/ \E id \in ItemIds : \E failed \in BOOLEAN : ApproveSent(id, failed)
    \/ \E id \in ItemIds : OpenRejectDialog(id)
    \/ \E n \in NotesInputs : SetRejectionNotes(n)
    \/ CancelReject
    \/ \E failed \in BOOLEAN : RejectSent(failed)
    \/ \E failed \in BOOLEAN : QueryAttempt(failed)

SpecRetry == InitRetry /\ [][NextRetry]_vars

\* the administrator's Dashboard at midnight UTC of day 1, in a browser on UTC
InitView ==
    /\ InitArchive
    /\ timeZone = 0
    /\ now = DayLength

NextView ==
    \/ \E m \in ViewModes : SetViewMode(m)
    \/ \E t \in TypeOptions : SetSelectedType(t)
    \/ \E c \in ClientOptions : SetSelectedClient(c)
    \/ \E id \in ItemIds : \E d \in Days : \E st \in Statuses :
         \E t \in FormTypes : FetchItem(id, d, st, t)

SpecView == InitView /\ [][NextView]_vars

\* the browser over the routes of the application
NextRoutes ==
    \/ \E p \in Paths : Visit(p)
    \/ Redirect
    \/ \E u \in LocalSubjects : "Login" \in Rendered /\ SignIn(u)
    \/ Rendered \cap {"Dashboard", "Header"} # {} /\ SignOut
    \/ AdminOpenForm
    \/ \E a \in FormAssignees : \E failed \in BOOLEAN : AdminSubmit(a, failed)
    \/ \E id \in ItemIds : \E failed \in BOOLEAN :
         "Dashboard" \in Rendered /\ ApproveItem(id, failed)
    \/ Tick

SpecRoutes == InitApp /\ [][NextRoutes]_vars

\* ===================================================================== claims
StoredRow(id) == content_items[id]
FlaggedAdmin(u) == \E r \in profiles : r.id = u /\ r.is_admin
IsBlank(s) == \A i \in 1..Len(s) : s[i] = " "
ActsAsAssigneeOrAdmin(id) ==
    StoredRow(id).assigned_to = session \/ (\E u \in session : FlaggedAdmin(u))

\* C1: a principal P can read a content item C if and only if P is the
\* assignee of C or P's profile has the admin flag.
C1_ReadIffAssigneeOrAdmin ==
    \A u \in Subjects : \A id \in StoredIds :
        (id \in SelectContentItems(Some(u)))
            <=> (StoredRow(id).assigned_to = Some(u) \/ FlaggedAdmin(u))

\* the assignee u2 and the admin u1 read an item that the signed-up u3 cannot
C1_Witness ==
    /\ "u3" \in auth_users
    /\ \E id \in StoredIds :
        /\ StoredRow(id).assigned_to = Some("u2")
        /\ id \in SelectContentItems(Some("u2"))
        /\ id \in SelectContentItems(Some("u1"))
        /\ id \notin SelectContentItems(Some("u3"))

\* C2: an insert into content_items sent by a principal that is not an admin
\* is refused and adds no row, whatever its payload.
C2_NonAdminInsertFails ==
    [][\A uid \in Requesters : \A p \in InsertPayloads(uid) :
        (last'.by = uid /\ InsertContentItem(uid, p)
                        /\ ~(\E u \in uid : FlaggedAdmin(u)))
            => (content_items' = content_items /\ last'.outcome = "rls_error")]_vars

\* a non-admin's insert was refused although an admin exists
C2_Witness ==
    /\ last.op = "insert"
    /\ last.by = Some("u2")
    /\ last.outcome = "rls_error"
    /\ FlaggedAdmin("u1")

\* C3: every row an insert adds is stored with status Pending, whatever status
\* the payload carried.
C3_InsertStoredPending ==
    [][\A id \in (DOMAIN content_items') \ StoredIds :
        content_items'[id].status = Some("Pending")]_vars

\* C4 as stated: an update of C by P passes authorization if and only if P is
\* the assignee of C or an admin.
C4_PermittedIffAssigneeOrAdmin ==
    [][\A uid \in Requesters : \A id \in StoredIds : \A p \in UpdatePayloads :
        (last'.by = uid /\ UpdateContentItem(uid, id, p))
            => ((last'.outcome \in {"ok", "constraint_error"})
                  <=> (StoredRow(id).assigned_to = uid
                        \/ (\E u \in uid : FlaggedAdmin(u))))]_vars

\* C4 as amended: an update of C by P passes authorization if and only if P is
\* an admin, or P is the assignee of C and the updated row is still assigned
\* to P; an update that does not pass changes no row.
C4_PermittedIffAdminOrStaysAssignee ==
    [][\A uid \in Requesters : \A id \in StoredIds : \A p \in UpdatePayloads :
        (last'.by = uid /\ UpdateContentItem(uid, id, p))
            => LET allowed ==
                     \/ \E u \in uid : FlaggedAdmin(u)
                     \/ /\ StoredRow(id).assigned_to = uid
                        /\ WithColumns(StoredRow(id), p).assigned_to = uid
               IN /\ (last'.outcome \in {"ok", "constraint_error"}) <=> allowed
                  /\ ~allowed => content_items' = content_items
                  /\ last'.outcome = "ok"
                        => content_items' = [content_items EXCEPT
                                               ![id] = WithColumns(@, p)]]_vars

\* an assignee's update that would hand the item to someone else was refused
C4_Witness ==
    /\ last.op = "update"
    /\ last.outcome = "rls_error"
    /\ ~(\E u \in last.by : FlaggedAdmin(u))
    /\ \E id \in StoredIds : StoredRow(id).assigned_to = last.by

\* C5: a stored status changes only from Pending; once Approved or Rejected it
\* never changes again.
C5_StatusOneWay ==
    [][\A id \in StoredIds :
        StoredRow(id).status # Some("Pending")
            => content_items'[id].status = StoredRow(id).status]_vars

\* C6: handleReject with non-blank notes N, by the item's assignee or an admin,
\* sets in one update status = Rejected, rejection_notes = N and rejected_at =
\* the time of the call, and nothing else.
C6_RejectSetsFields ==
    [][(/\ last'.op = "reject"
        /\ handleReject(FALSE)
        /\ rejectingItemId # Null
        /\ ~IsBlank(rejectionNotes)
        /\ rejectingItemId \subseteq StoredIds
        /\ ActsAsAssigneeOrAdmin(RejectingId))
        => content_items' =
             [content_items EXCEPT ![RejectingId] =
                [@ EXCEPT !.status = Some("Rejected"),
                          !.rejection_notes = Some(rejectionNotes),
                          !.rejected_at = Some(now)]]]_vars

\* an item was rejected after the clock moved, with the notes as typed
C6_Witness ==
    /\ last.op = "reject"
    /\ last.outcome = "ok"
    /\ now > 0
    /\ \E id \in StoredIds :
        /\ StoredRow(id).status = Some("Rejected")
        /\ StoredRow(id).rejection_notes = Some(<<" ", "n">>)
        /\ StoredRow(id).rejected_at = Some(now)

\* C7: handleReject with empty or whitespace-only notes sends no update and
\* leaves every stored row as it was.
C7_BlankNotesNotSent ==
    [][\A failed \in BOOLEAN :
        (last'.op = "reject" /\ IsBlank(rejectionNotes) /\ handleReject(failed))
            => (content_items' = content_items /\ last'.outcome = "not_sent")]_vars

\* the open dialog was confirmed with whitespace-only notes: nothing was sent
C7_Witness ==
    /\ last.op = "reject"
    /\ last.outcome = "not_sent"
    /\ rejectingItemId # Null
    /\ rejectionNotes = <<" ">>

\* C8: every stored item whose status is Rejected has its rejection notes and
\* its rejection timestamp set.
C8_RejectedHasNotesAndTime ==
    \A id \in StoredIds :
        StoredRow(id).status = Some("Rejected")
            => (StoredRow(id).rejection_notes # Null
                  /\ StoredRow(id).rejected_at # Null)

\* C9: handleStatusUpdate(id, 'Approved') by the assignee or an admin on an
\* item stored as Pending makes its status Approved and changes nothing else.
C9_ApproveOnlySetsStatus ==
    [][\A id \in StoredIds :
        (/\ last'.op = "approve"
         /\ handleStatusUpdate(id, "Approved", FALSE)
         /\ StoredRow(id).status = Some("Pending")
         /\ ActsAsAssigneeOrAdmin(id))
            => content_items' =
                 [content_items EXCEPT ![id].status = Some("Approved")]]_vars

\* a non-admin assignee approved its item: Approved, no rejection fields
C9_Witness ==
    /\ last.op = "approve"
    /\ last.outcome = "ok"
    /\ ~isAdmin
    /\ \E id \in StoredIds :
        /\ StoredRow(id).assigned_to = session
        /\ StoredRow(id).status = Some("Approved")
        /\ StoredRow(id).rejection_notes = Null
        /\ StoredRow(id).rejected_at = Null

\* C10: a principal always reads its own profile row, and reads another
\* principal's row if and only if its own profile has the admin flag.
C10_ProfileRead ==
    \A u \in auth_users : \A r \in profiles :
        /\ r.id = u => r \in SelectProfiles(Some(u))
        /\ r.id # u => (r \in SelectProfiles(Some(u)) <=> FlaggedAdmin(u))

\* u2 reads its own row but not u3's; the admin u1 reads both
C10_Witness ==
    /\ NewProfile("u2") \in SelectProfiles(Some("u2"))
    /\ NewProfile("u3") \in profiles
    /\ NewProfile("u3") \notin SelectProfiles(Some("u2"))
    /\ {NewProfile("u2"), NewProfile("u3")} \subseteq SelectProfiles(Some("u1"))

\* C11: is_admin() called by principal P returns true if and only if a profile
\* row with P's identifier exists and has the admin flag set (false for a
\* principal without a profile row); the value depends on nothing but the
\* stored profiles and P, and the call changes no table.
C11_IsAdminPure ==
    [][IsAdminStep
        => /\ result' = Some(\E u \in Top.uid : FlaggedAdmin(u))
           /\ UNCHANGED <<auth_users, profiles, content_items>>]_vars

\* the anonymous caller, who has no profile row, got false from is_admin()
\* although an admin's profile is stored
C11_Witness ==
    /\ last.op = "is_admin"
    /\ last.by = Null
    /\ stack = <<>>
    /\ result = Some(FALSE)
    /\ FlaggedAdmin("u1")

\* C12: evaluating the read policies on a profiles row always returns; the
\* admin check it makes is one lookup of profiles that does not evaluate the
\* policies of profiles again (never two policy evaluations nested).
C12_ProfilePolicyTerminates ==
    /\ [](/\ Cardinality({i \in DOMAIN stack :
                            stack[i].fn = "profiles_policy"}) <= 1
          /\ lookups <= 1)
    /\ (stack # <<>>) ~> (stack = <<>> /\ result # Null)

\* the non-admin u2 was refused u3's row after one lookup by is_admin()
C12_Witness ==
    /\ last.op = "selectProfile"
    /\ last.by = Some("u2")
    /\ "u3" \in auth_users
    /\ stack = <<>>
    /\ result = Some(FALSE)
    /\ lookups = 1

\* C13: in every reachable state each authenticated subject has exactly one
\* profile row, carrying its identifier, and nobody else has a profile row.
C13_OneProfilePerSubject ==
    \A u \in Subjects :
        Cardinality({r \in profiles : r.id = u}) = IF u \in auth_users THEN 1 ELSE 0

\* all subjects signed up, and the admin then tried to delete a profile
C13_Witness ==
    /\ auth_users = Subjects
    /\ Cardinality(profiles) = Cardinality(Subjects)
    /\ last.op = "deleteProfile"
    /\ last.by = Some("u1")

\* C14: the hook inserts, for a new user, one profile row whose admin flag is
\* true if and only if the user's email is the bootstrap address.
C14_HookFlagIffBootstrapEmail ==
    [][\A u \in Subjects :
        SignUp(u)
            => \E r \in profiles' :
                /\ profiles' \ profiles = {r}
                /\ r.id = u
                /\ r.email = EmailOf(u)
                /\ r.is_admin = (EmailOf(u) = "geral@stagelink.pt")]_vars

\* the bootstrap address signed up after another address: flags true and false
C14_Witness ==
    /\ last.op = "signup"
    /\ last.by = Some("u1")
    /\ \E r \in profiles : r.email = "geral@stagelink.pt" /\ r.is_admin = TRUE
    /\ \E r \in profiles : r.email = "ana@client.pt" /\ r.is_admin = FALSE

\* C15: no step changes the admin flag of a stored profile or removes a
\* profile: every stored row is still stored, with the same flag, afterwards.
C15_AdminFlagFrozen ==
    [][\A r \in profiles :
        \E q \in profiles' : q.id = r.id /\ q.is_admin = r.is_admin]_vars

\* the non-admin u2 tried to update a profile: no row was touched
C15_Witness ==
    /\ last.op = "updateProfile"
    /\ last.by = Some("u2")
    /\ last.outcome = "no_rows"
    /\ \E r \in profiles : r.id = "u2" /\ r.is_admin = FALSE
    /\ FlaggedAdmin("u1")

ScheduledDay(id) == CHOOSE d \in Days : contentItems[id] = ScheduledItem(id, d)
LocalToday == (now + timeZone) \div DayLength

\* C16: on every render an item is classified archived if and only if the
\* date it is scheduled for is before the current day, and current otherwise
\* (scheduled yesterday: archived; scheduled today or later: current).
C16_ArchivedIffBeforeToday ==
    [][Render
        => \A id \in DOMAIN contentItems :
            /\ (id \in archivedContent') <=> (ScheduledDay(id) < LocalToday)
            /\ (id \in currentContent') <=> (ScheduledDay(id) >= LocalToday)]_vars

\* the item was written by another client after this browser fetched it
WrittenSinceFetched(id) ==
    /\ id \in DOMAIN contentItems
    /\ contentItems[id].status = Some("Pending")
    /\ StoredRow(id).status # Some("Pending")

\* the row after an update that is applied on top of what is stored
Overwritten(id, payload) ==
    [content_items EXCEPT ![id] =
        [c \in Columns |-> IF c \in DOMAIN payload THEN payload[c] ELSE @[c]]]

Unauthorized(uid, id) ==
    /\ StoredRow(id).assigned_to # uid
    /\ ~(\E u \in uid : FlaggedAdmin(u))

\* C19: a write that fails authorization (an insert not sent by an admin, an
\* update of an item by a principal that is neither its assignee nor an admin,
\* any write to profiles) leaves content_items and profiles as they were and
\* is answered with an error.
C19_RefusedWriteFailsWhole ==
    [][/\ \A uid \in Requesters : \A p \in InsertPayloads(uid) :
            (InsertContentItem(uid, p) /\ ~(\E u \in uid : FlaggedAdmin(u)))
                => /\ UNCHANGED <<content_items, profiles>>
                   /\ last'.outcome = "rls_error"
       /\ \A uid \in Requesters : \A id \in StoredIds : \A p \in UpdatePayloads :
            (UpdateContentItem(uid, id, p) /\ Unauthorized(uid, id))
                => /\ UNCHANGED <<content_items, profiles>>
                   /\ last'.outcome = "rls_error"]_vars

\* C20: every stored content item has a content_type among Post, Story, Reel,
\* TikTok and a status among Pending, Approved, Rejected.
C20_EnumsHold ==
    \A id \in StoredIds :
        /\ StoredRow(id).content_type \in
             {Some("Post"), Some("Story"), Some("Reel"), Some("TikTok")}
        /\ StoredRow(id).status \in
             {Some("Pending"), Some("Approved"), Some("Rejected")}

\* C21: submitting the create form while no assignee is selected sends no
\* insert: no row is stored, the form stays open and holds what it held.
C21_NoAssigneeNotSent ==
    [][\A failed \in BOOLEAN :
        (formData.assigned_to = Null /\ SubmitForm(failed)) =>
            /\ last'.outcome = "not_sent"
            /\ content_items' = content_items
            /\ showForm' = TRUE
            /\ formData' = formData]_vars

\* the form was submitted with a content type chosen and no assignee
C21_Witness ==
    /\ last = Request("submit", session, "not_sent")
    /\ showForm
    /\ formData = [assigned_to |-> Null, content_type |-> "Reel"]
    /\ content_items = <<>>

\* C22: no retries are performed: a request that failed is not issued again
\* until the user triggers the action again, so every run of the contentItems
\* select is a first attempt.
C22_FailedRequestNotResent ==
    [][\A failed \in BOOLEAN : QueryAttempt(failed) => fetchFailures = 0]_vars

\* C23: no approve or reject request leaves the Dashboard for an item that it
\* displays as Approved or Rejected: whenever an update is sent, the item it
\* names is fetched as Pending.
C23_RequestsOnlyForPending ==
    [][/\ \A id \in ItemIds : \A failed \in BOOLEAN :
            ApproveItem(id, failed) => contentItems[id].status = Some("Pending")
       /\ \A failed \in BOOLEAN :
            (handleReject(failed) /\ last'.outcome # "not_sent") =>
                /\ RejectingId \in DOMAIN contentItems
                /\ contentItems[RejectingId].status = Some("Pending")]_vars

\* C24: at /admin, no session yields the redirect to / and nothing else; a
\* session whose profile email is not the bootstrap address yields Access
\* Denied without the create form and without the content table; the parts of
\* the admin page are shown only to the profile with the bootstrap address.
C24_AdminPageOnlyForBootstrap ==
    path = "/admin" =>
        /\ session = Null => Rendered = {"Navigate"}
        /\ (session # Null /\
              ~\E r \in profiles : Some(r.id) = session /\ r.email = BootstrapEmail)
            => /\ "AccessDenied" \in Rendered
               /\ Rendered \cap {"form", "table", "AddContent"} = {}
        /\ Rendered \cap {"form", "table", "AddContent"} # {} =>
              \E r \in profiles : Some(r.id) = session /\ r.email = BootstrapEmail

\* u2 is at /admin while an item is stored
C24_Witness ==
    /\ path = "/admin"
    /\ session = Some("u2")
    /\ content_items # <<>>
    /\ Rendered = {"AccessDenied"}

\* C25: in every reachable state a stored item has rejection notes or a
\* rejection time only if its status is Rejected.
C25_RejectionFieldsOnlyIfRejected ==
    \A id \in StoredIds :
        (StoredRow(id).rejection_notes # Null \/ StoredRow(id).rejected_at # Null)
            => StoredRow(id).status = Some("Rejected")

\* C26: a principal without the admin flag never changes an item's assignee:
\* its update is refused whenever the updated row would not be assigned to it,
\* and whatever it sends, the stored assigned_to stays what it was.
C26_NonAdminKeepsAssignee ==
    [][\A uid \in Requesters : \A id \in StoredIds : \A p \in UpdatePayloads :
        (last'.by = uid /\ last'.op = "update"
                        /\ ~(\E u \in uid : FlaggedAdmin(u))
                        /\ UpdateContentItem(uid, id, p))
            => /\ content_items'[id].assigned_to = StoredRow(id).assigned_to
               /\ WithColumns(StoredRow(id), p).assigned_to # uid
                    => /\ content_items' = content_items
                       /\ last'.outcome \in {"no_rows", "rls_error"}]_vars

\* u3, not the assignee, tried to take over the item of u2: no row matched
C26_Witness ==
    /\ last = Request("update", Some("u3"), "no_rows")
    /\ \E id \in StoredIds : StoredRow(id).assigned_to = Some("u2")
    /\ ~FlaggedAdmin("u3")
    /\ \E r \in profiles : r.id = "u3"

\* C27: for every signed-up principal, in every reachable state, the browser's
\* admin test (profile email = bootstrap address) and the database's
\* (is_admin()) agree, and so the create form is offered exactly to the
\* principals whose insert the INSERT policy admits.
C27_AdminTestsAgree ==
    \A u \in auth_users :
        /\ IsAdminEmail(Some(u)) <=> is_admin(Some(u))
        /\ IsAdminEmail(Some(u)) <=>
             ContentInsertCheck(Some(u),
                WithColumns(DefaultRow(NextId),
                            FormColumns("Post", Some("u2"), Some(u))))

\* the administrator and a non-admin are signed up, and the non-admin has
\* tried to raise its own flag
C27_Witness ==
    /\ last = Request("updateProfile", Some("u3"), "no_rows")
    /\ IsAdminEmail(Some("u1"))
    /\ ~IsAdminEmail(Some("u3"))
    /\ {"u1", "u3"} \subseteq auth_users

\* C28: no item is ever stored with an empty assignee or assigned to an
\* administrator: the assignee of every stored item is a profile without the
\* admin flag.
C28_AssigneeIsNonAdminProfile ==
    \A id \in StoredIds :
        \E r \in profiles :
            /\ StoredRow(id).assigned_to = Some(r.id)
            /\ r.is_admin = FALSE

\* C29: choosing reject sends nothing and opens the dialog for that item with
\* empty notes; handleReject sends an update only for an open dialog with
\* non-blank notes; when the update succeeded the dialog is closed and the
\* notes are cleared; when it failed the dialog stays open for the same item
\* with the notes kept and nothing is stored; cancelling sends nothing.
C29_RejectDialog ==
    [][/\ \A id \in ItemIds :
            (last'.op = "openReject" /\ OpenRejectDialog(id))
                => /\ content_items' = content_items
                   /\ last'.outcome = "not_sent"
                   /\ rejectingItemId' = Some(id)
                   /\ rejectionNotes' = <<>>
       /\ \A failed \in BOOLEAN :
            (last'.op = "reject" /\ handleReject(failed))
                => /\ last'.outcome # "not_sent"
                        => (rejectingItemId # Null /\ ~IsBlank(rejectionNotes))
                   /\ last'.outcome = "not_sent" => content_items' = content_items
                   /\ last'.outcome = "ok"
                        => (rejectingItemId' = Null /\ rejectionNotes' = <<>>)
                   /\ last'.outcome \in {"transport_error", "rls_error",
                                         "constraint_error"}
                        => /\ content_items' = content_items
                           /\ rejectingItemId' = rejectingItemId
                           /\ rejectionNotes' = rejectionNotes
       /\ (last'.op = "cancelReject" /\ CancelReject)
                => /\ content_items' = content_items
                   /\ last'.outcome = "not_sent"
                   /\ rejectingItemId' = Null]_vars

\* the confirmed rejection did not get through: the dialog is still open for
\* the item, with the notes typed
C29_Witness ==
    /\ last.op = "reject"
    /\ last.outcome = "transport_error"
    /\ rejectingItemId = Some(1)
    /\ rejectionNotes = <<" ", "n">>
    /\ StoredRow(1).status = Some("Pending")

====
